---- MODULE Spec2Model ----
(***************************************************************************)
(* A model of src/patient_risk_scorer.py: the retrying paginated fetch,    *)
(* the vital-sign parsers and scorers, the cohort aggregation and the run  *)
(* that submits the cohorts.                                               *)
(*                                                                         *)
(* Python values are modelled as records [t, s, n]:                        *)
(*   t = "none"   None (a JSON null, or what dict.get gives for a missing  *)
(*                key); t = "absent" marks the missing key itself          *)
(*   t = "str"    a string, s its characters: the sequence of their code  *)
(*                points (ord), "120/80" being <<49, 50, 48, 47, 56, 48>>; *)
(*                upper() is exact wherever s.upper() is ASCII, which is   *)
(*                all a comparison with the ASCII sentinels depends on     *)
(*   t = "int"    an integer n                                             *)
(*   t = "float"  a finite float, n its value in hundredths                *)
(* A parsed float is [k, n, q]: k = "fin" for the number n / q, q a power  *)
(* of ten, or k = "nan", "inf", "ninf".  Decimal arithmetic is exact, as   *)
(* the comparisons of float are for numbers of up to 15 significant        *)
(* digits; integers are those of 32 bits.                                  *)
(***************************************************************************)
EXTENDS Integers, Sequences, FiniteSets, TLC

\* ------------------------------------------------------------ constants

\* MAX_RETRIES = 5
MAX_RETRIES == 5

\* Bounds of the model.
MaxPage == 2
MaxListLen == 2
MaxSystolic == 142
MaxDiastolic == 92

\* ------------------------------------------------------------ Python values

None == [t |-> "none", s |-> <<>>, n |-> 0]
Absent == [t |-> "absent", s |-> <<>>, n |-> 0]
PyStr(chars) == [t |-> "str", s |-> chars, n |-> 0]
PyInt(i) == [t |-> "int", s |-> <<>>, n |-> i]
PyFloat(h) == [t |-> "float", s |-> <<>>, n |-> h]

\* dict.get(key): a missing key reads as None.
Get(v) == IF v.t = "absent" THEN None ELSE v

\* dict.get(key, default): a missing key reads as the default; a null stays None.
GetDefault(v, default) == IF v.t = "absent" THEN default ELSE v

\* ------------------------------------------------------------ characters

\* The code points of the digit zero of every decimal digit system of
\* Unicode 14 (the digits 0..9 of a system are consecutive), 48 being "0".
DecimalZeros ==
    {48, 1632, 1776, 1984, 2406, 2534, 2662, 2790, 2918, 3046, 3174, 3302,
     3430, 3558, 3664, 3792, 3872, 4160, 4240, 6112, 6160, 6470, 6608, 6784,
     6800, 6992, 7088, 7232, 7248, 42528, 43216, 43264, 43472, 43504, 43600,
     44016, 65296, 66720, 68912, 69734, 69872, 69942, 70096, 70384, 70736,
     70864, 71248, 71360, 71472, 71904, 72016, 72784, 73040, 73120, 92768,
     92864, 93008, 120782, 120792, 120802, 120812, 120822, 123200, 123632,
     125264, 130032}

\* The characters str.isdigit() accepts that are no decimal digit
\* (superscripts, circled digits and the like); int() rejects them.
OtherDigits ==
    {178, 179, 185, 4969, 4970, 4971, 4972, 4973, 4974, 4975, 4976, 4977,
     6618, 8304, 8308, 8309, 8310, 8311, 8312, 8313, 8320, 8321, 8322, 8323,
     8324, 8325, 8326, 8327, 8328, 8329, 9312, 9313, 9314, 9315, 9316, 9317,
     9318, 9319, 9320, 9332, 9333, 9334, 9335, 9336, 9337, 9338, 9339, 9340,
     9352, 9353, 9354, 9355, 9356, 9357, 9358, 9359, 9360, 9450, 9461, 9462,
     9463, 9464, 9465, 9466, 9467, 9468, 9469, 9471, 10102, 10103, 10104,
     10105, 10106, 10107, 10108, 10109, 10110, 10112, 10113, 10114, 10115,
     10116, 10117, 10118, 10119, 10120, 10122, 10123, 10124, 10125, 10126,
     10127, 10128, 10129, 10130, 68160, 68161, 68162, 68163, 69216, 69217,
     69218, 69219, 69220, 69221, 69222, 69223, 69224, 69714, 69715, 69716,
     69717, 69718, 69719, 69720, 69721, 69722, 127232, 127233, 127234,
     127235, 127236, 127237, 127238, 127239, 127240, 127241, 127242}

\* c is a decimal digit, and its value.
IsDecimalChar(c) == \E z \in DecimalZeros : c \in z..(z + 9)
DigitVal(c) == c - (CHOOSE z \in DecimalZeros : c \in z..(z + 9))

\* str.isdigit() of a character.
IsDigitChar(c) == IsDecimalChar(c) \/ c \in OtherDigits

\* str.isspace() of a character: what str.strip() removes.
IsSpace(c) ==
    c \in (9..13) \cup (28..32) \cup {133, 160, 5760} \cup (8192..8202)
          \cup {8232, 8233, 8239, 8287, 12288}

\* ord(c): str compares by code point.
Ord(c) == c

\* str.upper() of a character: the ASCII letters, and the characters beyond
\* ASCII whose upper case is ASCII.
UpperChar(c) ==
    IF c \in 97..122 THEN <<c - 32>>
    ELSE IF c = 223 THEN <<83, 83>>  \* "SS"
    ELSE IF c = 305 THEN <<73>>  \* "I"
    ELSE IF c = 383 THEN <<83>>  \* "S"
    ELSE IF c = 64256 THEN <<70, 70>>  \* "FF"
    ELSE IF c = 64257 THEN <<70, 73>>  \* "FI"
    ELSE IF c = 64258 THEN <<70, 76>>  \* "FL"
    ELSE IF c = 64259 THEN <<70, 70, 73>>  \* "FFI"
    ELSE IF c = 64260 THEN <<70, 70, 76>>  \* "FFL"
    ELSE IF c \in {64261, 64262} THEN <<83, 84>>  \* "ST"
    ELSE <<c>>

\* str.upper()
RECURSIVE Upper(_)
Upper(s) == IF s = <<>> THEN <<>> ELSE UpperChar(Head(s)) \o Upper(Tail(s))

\* What int() and float() read of a string: an ASCII character as it is,
\* and beyond ASCII a decimal digit as its ASCII digit, whitespace as a
\* space, any other character as "?".
ToAsciiChar(c) ==
    IF c < 128 THEN c
    ELSE IF IsSpace(c) THEN 32
    ELSE IF IsDecimalChar(c) THEN 48 + DigitVal(c)
    ELSE 63
ToAscii(s) == [i \in 1..Len(s) |-> ToAsciiChar(s[i])]

\* The ASCII letters of s in upper case.
AsciiUpper(s) == [i \in 1..Len(s) |-> IF s[i] \in 97..122 THEN s[i] - 32 ELSE s[i]]

\* str.strip()
RECURSIVE LStrip(_)
LStrip(s) == IF s # <<>> /\ IsSpace(Head(s)) THEN LStrip(Tail(s)) ELSE s
RECURSIVE RStrip(_)
RStrip(s) ==
    IF s # <<>> /\ IsSpace(s[Len(s)]) THEN RStrip(SubSeq(s, 1, Len(s) - 1)) ELSE s
Strip(s) == RStrip(LStrip(s))

\* The whitespace int() and float() skip around a number: that of ASCII
\* without the separators 28..31.
IsNumSpace(c) == c \in (9..13) \cup {32}
RECURSIVE NumLStrip(_)
NumLStrip(s) == IF s # <<>> /\ IsNumSpace(Head(s)) THEN NumLStrip(Tail(s)) ELSE s
RECURSIVE NumRStrip(_)
NumRStrip(s) ==
    IF s # <<>> /\ IsNumSpace(s[Len(s)]) THEN NumRStrip(SubSeq(s, 1, Len(s) - 1)) ELSE s
NumStrip(s) == NumRStrip(NumLStrip(s))

\* sep in s
Contains(s, sep) == \E i \in 1..Len(s) : s[i] = sep

\* str.split(sep) for a one-character separator: the list of parts.
RECURSIVE SplitFrom(_, _, _)
SplitFrom(s, sep, cur) ==
    IF s = <<>> THEN <<cur>>
    ELSE IF Head(s) = sep THEN <<cur>> \o SplitFrom(Tail(s), sep, <<>>)
    ELSE SplitFrom(Tail(s), sep, Append(cur, Head(s)))
Split(s, sep) == SplitFrom(s, sep, <<>>)

\* str.isdigit(): non-empty and every character a digit.
IsDigit(s) == s # <<>> /\ \A i \in 1..Len(s) : IsDigitChar(s[i])

\* s is a non-empty run of ASCII digits.
IsDecimal(s) == s # <<>> /\ \A i \in 1..Len(s) : s[i] \in 48..57

RECURSIVE DigitsValue(_)
DigitsValue(s) ==
    IF s = <<>> THEN 0 ELSE 10 * DigitsValue(SubSeq(s, 1, Len(s) - 1)) + DigitVal(s[Len(s)])

RECURSIVE Pow10(_)
Pow10(k) == IF k = 0 THEN 1 ELSE 10 * Pow10(k - 1)

\* The digits of a natural number, as str() writes them.
RECURSIVE NatChars(_)
NatChars(i) ==
    IF i < 10 THEN <<48 + i>> ELSE Append(NatChars(i \div 10), 48 + (i % 10))

\* str(i) of an int.
FormatInt(i) == IF i < 0 THEN <<45>> \o NatChars(-i) ELSE NatChars(i)  \* "-"

\* str(x) of a finite float given in hundredths: the shortest form, with at
\* least one fractional digit (120.0, 98.6, 99.55).
FormatFloat(h) ==
    LET a == IF h < 0 THEN -h ELSE h
        frac == a % 100
        fchars == IF frac % 10 = 0 THEN <<48 + (frac \div 10)>>
                  ELSE <<48 + (frac \div 10), 48 + (frac % 10)>>
    IN  (IF h < 0 THEN <<45>> ELSE <<>>) \o NatChars(a \div 100) \o <<46>> \o fchars  \* "-", "."

\* str(v), also what an f-string writes for v.
Str(v) ==
    IF v.t = "str" THEN v.s
    ELSE IF v.t = "int" THEN FormatInt(v.n)
    ELSE IF v.t = "float" THEN FormatFloat(v.n)
    ELSE <<78, 111, 110, 101>>  \* "None"

\* Every underscore of s stands between two digits.
UnderscoresOk(s) ==
    \A i \in 1..Len(s) :
        s[i] = 95 => i > 1 /\ i < Len(s) /\ s[i - 1] \in 48..57 /\ s[i + 1] \in 48..57

\* s without its underscores.
DropUnderscores(s) == SelectSeq(s, LAMBDA c : c # 95)

\* x without its sign.
Unsigned(x) == IF x # <<>> /\ Head(x) \in {43, 45} THEN Tail(x) ELSE x  \* "+", "-"

\* x starts with a minus sign.
Negative(x) == x # <<>> /\ Head(x) = 45  \* "-"

\* An optional sign and ASCII digits as an integer; ok = FALSE when x is not
\* of that form.
SignedInt(x) ==
    IF IsDecimal(Unsigned(x))
    THEN [ok |-> TRUE,
          n |-> IF Negative(x) THEN -DigitsValue(Tail(x)) ELSE DigitsValue(Unsigned(x))]
    ELSE [ok |-> FALSE, n |-> 0]

\* The number int() and float() read from u, a string without the
\* whitespace around it: no number when an underscore is misplaced.
IntOfStripped(u) ==
    IF UnderscoresOk(u) THEN SignedInt(DropUnderscores(u)) ELSE [ok |-> FALSE, n |-> 0]

\* int(s) of a string: surrounding whitespace, an optional sign, then digits,
\* which single underscores may group.  ok = FALSE stands for ValueError.
ParseInt(s) == IntOfStripped(NumStrip(ToAscii(s)))

NoFloat == [ok |-> FALSE, k |-> "fin", n |-> 0, q |-> 1]

\* The number n / q.
Finite(n, q) == [ok |-> TRUE, k |-> "fin", n |-> n, q |-> q]

\* The number mant * 10^e10.
Scaled(mant, e10) ==
    IF e10 >= 0 THEN Finite(mant * Pow10(e10), 1) ELSE Finite(mant, Pow10(-e10))

\* The digits after the point of a mantissa split at its point.
Fraction(parts) == IF Len(parts) = 2 THEN parts[2] ELSE <<>>

\* A mantissa split at its point: digits, with at most one point and a digit
\* on at least one side of it.
MantissaOk(parts) ==
    /\ Len(parts) \in {1, 2}
    /\ \A i \in 1..Len(parts) : parts[i] = <<>> \/ IsDecimal(parts[i])
    /\ \E i \in 1..Len(parts) : parts[i] # <<>>

\* A decimal of the given sign, mantissa and exponent.
Decimal(neg, parts, expo) ==
    IF MantissaOk(parts) /\ expo.ok
    THEN Scaled(IF neg THEN -DigitsValue(parts[1] \o Fraction(parts))
                ELSE DigitsValue(parts[1] \o Fraction(parts)),
                expo.n - Len(Fraction(parts)))
    ELSE NoFloat

\* A decimal split at its exponent marker.
FloatOfParts(neg, eparts) ==
    IF Len(eparts) = 1 THEN Decimal(neg, Split(eparts[1], 46), [ok |-> TRUE, n |-> 0])  \* "."
    ELSE IF Len(eparts) = 2 THEN Decimal(neg, Split(eparts[1], 46), SignedInt(eparts[2]))  \* "."
    ELSE NoFloat

\* The float of a sign and an unsigned body in upper case.
FloatOfBody(neg, body) ==
    IF body = <<78, 65, 78>>  \* "NAN"
    THEN [ok |-> TRUE, k |-> "nan", n |-> 0, q |-> 1]
    ELSE IF body \in {<<73, 78, 70>>, <<73, 78, 70, 73, 78, 73, 84, 89>>}  \* "INF", "INFINITY"
    THEN [ok |-> TRUE, k |-> IF neg THEN "ninf" ELSE "inf", n |-> 0, q |-> 1]
    ELSE FloatOfParts(neg, Split(body, 69))  \* "E"

\* The float of u, a string without the whitespace around it.
FloatOfStripped(u) ==
    IF UnderscoresOk(u)
    THEN FloatOfBody(Negative(u), AsciiUpper(DropUnderscores(Unsigned(u))))
    ELSE NoFloat

\* float(s) of a string: surrounding whitespace, an optional sign, then
\* "nan", "inf" or "infinity" in any case, or a decimal: digits with an
\* optional point (digits on at least one side of it) and an optional
\* exponent, e or E with an optional sign and digits; single underscores may
\* group digits.  ok = FALSE stands for ValueError.
ParseFloat(s) == FloatOfStripped(NumStrip(ToAscii(s)))

\* float(v) of any value.  ok = FALSE stands for ValueError or TypeError.
ToFloat(v) ==
    IF v.t = "str" THEN ParseFloat(v.s)
    ELSE IF v.t = "int" THEN Finite(v.n, 1)
    ELSE IF v.t = "float" THEN Finite(v.n, 100)
    ELSE NoFloat

\* int(v) of any value: a float truncates toward zero.
ToInt(v) ==
    IF v.t = "str" THEN ParseInt(v.s)
    ELSE IF v.t = "int" THEN [ok |-> TRUE, n |-> v.n]
    ELSE IF v.t = "float"
    THEN [ok |-> TRUE, n |-> IF v.n < 0 THEN -((-v.n) \div 100) ELSE v.n \div 100]
    ELSE [ok |-> FALSE, n |-> 0]

\* f <= c and f >= c for a parsed float f and a constant c in hundredths:
\* every comparison with nan is false.
FloatLe(f, c) == f.k = "ninf" \/ (f.k = "fin" /\ f.n * 100 <= c * f.q)
FloatGe(f, c) == f.k = "inf" \/ (f.k = "fin" /\ f.n * 100 >= c * f.q)

\* ------------------------------------------------------------ vital parsers

\* ["INVALID", "N/A", "NA", "NULL", "NONE"]
BP_SENTINELS ==
    { <<73, 78, 86, 65, 76, 73, 68>>,  \* "INVALID"
      <<78, 47, 65>>, <<78, 65>>,  \* "N/A", "NA"
      <<78, 85, 76, 76>>, <<78, 79, 78, 69>> }  \* "NULL", "NONE"

\* ["TEMP_ERROR", "INVALID", "N/A", "NA", "NULL", "NONE"]
TEMP_SENTINELS ==
    { <<84, 69, 77, 80, 95, 69, 82, 82, 79, 82>> } \cup BP_SENTINELS  \* "TEMP_ERROR"

\* The texts of the issues.
InvalidBP ==  \* "Invalid BP: "
    <<73, 110, 118, 97, 108, 105, 100, 32, 66, 80, 58, 32>>
MissingTemperature ==  \* "Missing temperature"
    <<77, 105, 115, 115, 105, 110, 103, 32, 116, 101, 109, 112, 101, 114,
      97, 116, 117, 114, 101>>
InvalidTemperature ==  \* "Invalid temperature: "
    <<73, 110, 118, 97, 108, 105, 100, 32, 116, 101, 109, 112, 101, 114,
      97, 116, 117, 114, 101, 58, 32>>
MissingAge ==  \* "Missing age"
    <<77, 105, 115, 115, 105, 110, 103, 32, 97, 103, 101>>
InvalidAge ==  \* "Invalid age: "
    <<73, 110, 118, 97, 108, 105, 100, 32, 97, 103, 101, 58, 32>>

NoInt == [ok |-> FALSE, n |-> 0]

\* parse_blood_pressure: (systolic, diastolic), each [ok, n] with ok = FALSE
\* for None.
parse_blood_pressure(bp_value) ==
    IF bp_value.t = "none" \/ bp_value = PyStr(<<>>) THEN <<NoInt, NoInt>>
    ELSE LET text == Str(bp_value)
             parts == Split(text, 47)  \* "/"
         IN  IF Upper(text) \in BP_SENTINELS THEN <<NoInt, NoInt>>
             ELSE IF ~Contains(text, 47) THEN <<NoInt, NoInt>>  \* "/"
             ELSE IF Len(parts) # 2 THEN <<NoInt, NoInt>>
             ELSE << IF Strip(parts[1]) # <<>> THEN ParseInt(Strip(parts[1])) ELSE NoInt,
                     IF Strip(parts[2]) # <<>> THEN ParseInt(Strip(parts[2])) ELSE NoInt >>

\* A variant whose second rule leaves out systolic = 120.
BpReturnLine_StrictElevated(systolic, diastolic) ==
    IF systolic < 120 /\ diastolic < 80 THEN 140
    ELSE IF 120 < systolic /\ systolic <= 129 /\ diastolic < 80 THEN 144
    ELSE IF (130 <= systolic /\ systolic <= 139) \/ (80 <= diastolic /\ diastolic <= 89) THEN 148
    ELSE IF systolic >= 140 \/ diastolic >= 90 THEN 152
    ELSE 155

\* The return statement calculate_bp_risk reaches for valid readings, by its
\* line in the source.
BpReturnLine(systolic, diastolic) ==
    IF systolic < 120 /\ diastolic < 80 THEN 140
    ELSE IF 120 <= systolic /\ systolic <= 129 /\ diastolic < 80 THEN 144
    ELSE IF (130 <= systolic /\ systolic <= 139) \/ (80 <= diastolic /\ diastolic <= 89) THEN 148
    ELSE IF systolic >= 140 \/ diastolic >= 90 THEN 152
    ELSE 155

\* calculate_bp_risk: [score, issue, line], line the return statement taken.
calculate_bp_risk(bp_value) ==
    LET p == parse_blood_pressure(bp_value)
        line == BpReturnLine(p[1].n, p[2].n)
    IN  IF ~p[1].ok \/ ~p[2].ok
        THEN [score |-> 0, issue |-> PyStr(InvalidBP \o Str(bp_value)), line |-> 135]
        ELSE [score |-> CASE line = 140 -> 0 [] line = 144 -> 1 [] line = 148 -> 2
                          [] line = 152 -> 3 [] OTHER -> 0,
              issue |-> None, line |-> line]

\* The bucket of a parsed temperature (lines 174-179).
TempBucket(temp) ==
    IF FloatLe(temp, 9950) THEN 0
    ELSE IF FloatGe(temp, 9960) /\ FloatLe(temp, 10090) THEN 1
    ELSE 2

\* calculate_temp_risk: [score, issue].
calculate_temp_risk(temp_value) ==
    IF temp_value.t = "none" \/ temp_value = PyStr(<<>>)
    THEN [score |-> 0, issue |-> PyStr(MissingTemperature)]
    ELSE IF temp_value.t = "str" /\ Upper(temp_value.s) \in TEMP_SENTINELS
    THEN [score |-> 0, issue |-> PyStr(InvalidTemperature \o Str(temp_value))]
    ELSE IF ~ToFloat(temp_value).ok
    THEN [score |-> 0, issue |-> PyStr(InvalidTemperature \o Str(temp_value))]
    ELSE [score |-> TempBucket(ToFloat(temp_value)), issue |-> None]

\* The bucket of a parsed age (lines 200-205).
AgeBucket(age) ==
    IF age < 40 THEN 0
    ELSE IF 40 <= age /\ age <= 65 THEN 1
    ELSE 2

\* calculate_age_risk: [score, issue].
calculate_age_risk(age_value) ==
    IF age_value.t = "none" \/ age_value = PyStr(<<>>)
    THEN [score |-> 0, issue |-> PyStr(MissingAge)]
    ELSE IF age_value.t = "str" /\ ~IsDigit(age_value.s)
    THEN [score |-> 0, issue |-> PyStr(InvalidAge \o Str(age_value))]
    ELSE IF ~ToInt(age_value).ok
    THEN [score |-> 0, issue |-> PyStr(InvalidAge \o Str(age_value))]
    ELSE [score |-> AgeBucket(ToInt(age_value).n), issue |-> None]

\* The truth value of an issue: None is false, a non-empty str is true.
Truthy(v) == v.t = "str" /\ v.s # <<>>

\* calculate_risk_score: the RiskScore of one patient record.
calculate_risk_score(patient) ==
    LET bp == calculate_bp_risk(Get(patient.blood_pressure))
        temp == calculate_temp_risk(Get(patient.temperature))
        age == calculate_age_risk(Get(patient.age))
        issues == (IF Truthy(bp.issue) THEN <<bp.issue>> ELSE <<>>)
                  \o (IF Truthy(temp.issue) THEN <<temp.issue>> ELSE <<>>)
                  \o (IF Truthy(age.issue) THEN <<age.issue>> ELSE <<>>)
    IN  [bp_score |-> bp.score, temp_score |-> temp.score, age_score |-> age.score,
         total_score |-> bp.score + temp.score + age.score,
         has_data_issues |-> Truthy(bp.issue) \/ Truthy(temp.issue) \/ Truthy(age.issue),
         issues |-> issues]

\* RiskScore()
NoRisk ==
    [bp_score |-> 0, temp_score |-> 0, age_score |-> 0, total_score |-> 0,
     has_data_issues |-> FALSE, issues |-> <<>>]

\* ------------------------------------------------------------ cohorts

\* patient.get("patient_id", "UNKNOWN")
PatientId(patient) == GetDefault(patient.patient_id, PyStr(<<85, 78, 75, 78, 79, 87, 78>>))  \* "UNKNOWN"

\* Lines 243-244: the high-risk test.
IsHighRisk(risk) == risk.total_score >= 4

\* A variant whose threshold is 99.5.
IsFever_LowThreshold(patient) ==
    LET temp == Get(patient.temperature)
    IN  temp.t # "none" /\ ToFloat(temp).ok /\ FloatGe(ToFloat(temp), 9950)

\* Lines 246-251: the fever test on the raw temperature; a float() that
\* raises leaves the patient out.
IsFever(patient) ==
    LET temp == Get(patient.temperature)
    IN  temp.t # "none" /\ ToFloat(temp).ok /\ FloatGe(ToFloat(temp), 9960)

\* a < b for two str, by code point.
RECURSIVE CharsLess(_, _)
CharsLess(a, b) ==
    IF b = <<>> THEN FALSE
    ELSE IF a = <<>> THEN TRUE
    ELSE IF Ord(Head(a)) # Ord(Head(b)) THEN Ord(Head(a)) < Ord(Head(b))
    ELSE CharsLess(Tail(a), Tail(b))

\* A number's value in hundredths.
Hundredths(v) == IF v.t = "int" THEN 100 * v.n ELSE v.n

\* a < b is defined: two str, or two numbers.  It raises TypeError otherwise
\* (None, or a str with a number).
Comparable(a, b) ==
    \/ a.t = "str" /\ b.t = "str"
    \/ a.t \in {"int", "float"} /\ b.t \in {"int", "float"}

\* a < b for two values that compare.
PyLess(a, b) ==
    IF a.t = "str" THEN CharsLess(a.s, b.s) ELSE Hundredths(a) < Hundredths(b)

\* sorted(ids) raises TypeError: a sort of two or more values compares every
\* value with another, and across any two kinds of values.
SortRaises(ids) ==
    \E i, j \in 1..Len(ids) : i # j /\ ~Comparable(ids[i], ids[j])

\* sorted(ids) of values that compare: a stable sort, ascending.
RECURSIVE InsertSorted(_, _)
InsertSorted(sorted, x) ==
    IF sorted = <<>> THEN <<x>>
    ELSE IF PyLess(x, Head(sorted)) THEN <<x>> \o sorted
    ELSE <<Head(sorted)>> \o InsertSorted(Tail(sorted), x)
RECURSIVE Sorted(_)
Sorted(ids) ==
    IF ids = <<>> THEN <<>> ELSE InsertSorted(Sorted(SubSeq(ids, 1, Len(ids) - 1)), ids[Len(ids)])

\* ------------------------------------------------------------ the source

\* The non-200 statuses the source answers with in the model.
NonOkStatuses == {400, 401, 404, 429, 500, 502, 503}

\* A variant that retries every status but 200.
RETRY_STATUSES_AllErrors == NonOkStatuses

\* Line 50: the statuses that are retried.
RETRY_STATUSES == {429, 500, 503}

\* A variant whose loop runs once more.
RetriesExhausted_OffByOne(attempt) == attempt >= MAX_RETRIES

\* Line 38: the attempt just made (numbered from 0) was the last of the loop.
RetriesExhausted(attempt) == attempt + 1 >= MAX_RETRIES

\* A variant whose default for a missing hasNext is True.
HasNext_DefaultTrue(body) == body.has_next # "false"

\* Lines 89-90: pagination.get("hasNext", False).
HasNext(body) == body.has_next = "true"

\* Line 77: not result or "data" not in result.
NoData(body) == ~body.has_data

\* A variant that never takes the early return.
NoPatients_Never(patients) == FALSE

\* Line 357: not patients.
NoPatients(patients) == patients = <<>>

\* How the fetch protocol names a response: 200 is "ok"; a transport
\* failure (status 0 here) or 429, 500, 503 is "transient"; any other
\* status is "other".
ResponseKind(status) ==
    IF status = 200 THEN "ok"
    ELSE IF status \in {0, 429, 500, 503} THEN "transient"
    ELSE "other"

SeqsUpTo(S, n) == UNION {[1..k -> S] : k \in 0..n}

Patient(id, bp, temp, age) ==
    [patient_id |-> id, blood_pressure |-> bp, temperature |-> temp, age |-> age]

\* The records the cohort lists are drawn from.
PatientA ==
    Patient(PyStr(<<80, 50>>),  \* "P2"
            PyStr(<<49, 53, 48, 47, 57, 53>>),  \* "150/95"
            PyFloat(10100),
            PyInt(70))
PatientB ==
    Patient(PyStr(<<80, 49>>),  \* "P1"
            PyStr(<<78, 47, 65>>),  \* "N/A"
            PyStr(<<57, 57, 46, 55>>),  \* "99.7"
            PyStr(<<52, 53>>))  \* "45"
PatientC == Patient(Absent, PyStr(<<49, 49, 56, 47, 55, 54>>), PyFloat(9860), None)  \* "118/76"
PatientD ==
    Patient(PyStr(<<80, 50>>),  \* "P2"
            PyStr(<<49, 51, 53, 47, 56, 53>>),  \* "135/85"
            PyStr(<<84, 69, 77, 80, 95, 69, 82, 82, 79, 82>>),  \* "TEMP_ERROR"
            PyInt(66))
PatientE ==
    Patient(PyStr(<<80, 49, 48>>),  \* "P10"
            PyStr(<<49, 50, 48, 47, 55, 57>>),  \* "120/79"
            PyInt(100),
            PyStr(<<51, 57>>))  \* "39"
PatientF ==
    Patient(Absent,
            PyStr(<<49, 52, 49, 47, 55, 48>>),  \* "141/70"
            PyStr(<<49, 48, 49>>),  \* "101"
            PyStr(<<97, 98, 99>>))  \* "abc"
PatientG == Patient(None, PyStr(<<49, 49, 56, 47, 55, 54>>), PyFloat(9860), None)  \* "118/76"
PatientH ==
    Patient(PyInt(7),
            PyStr(<<49, 49, 56, 47, 55, 54>>),  \* "118/76"
            PyStr(<<49, 101, 50>>),  \* "1e2"
            PyInt(30))
Catalog == {PatientA, PatientB, PatientC, PatientD, PatientE, PatientF, PatientG, PatientH}

\* The records the source serves in the run.
SourceCatalog == {PatientA, PatientB, PatientG}

\* The pages of records the source serves: empty, one record, or two.
PageData == {<<>>} \cup {<<p>> : p \in SourceCatalog} \cup {<<PatientA, PatientB>>}

NoBody == [has_data |-> FALSE, data |-> <<>>, has_next |-> "absent"]

\* The JSON bodies of a 200 response: without "data", or with a list of
\* records and hasNext true, false or missing.
\* (A 200 answer always carries a JSON object here.)
Bodies ==
    {NoBody} \cup
    [has_data : {TRUE}, data : PageData,
     has_next : {"true", "false", "absent"}]

NoResults ==
    [high_risk_patients |-> <<>>, fever_patients |-> <<>>,
     data_quality_issues |-> <<>>, total_patients |-> 0]

NoGiven == [kind |-> "none", a |-> 0, b |-> 0]

\* ------------------------------------------------------------ inputs of the scorers

\* A blood-pressure string "S/D" written from two integers.
BpString(s, d) == PyStr(FormatInt(s) \o <<47>> \o FormatInt(d))  \* "/"

\* The range of temperatures swept, in hundredths of a degree.
MinTemp == 9900
MaxTemp == 10150

\* A key that is missing, null or the empty string.
MissingValues == {Absent, None, PyStr(<<>>)}

\* Blood-pressure values: sentinel strings, garbage, and valid readings.
BpSentinelValues ==
    {PyStr(<<78, 47, 65>>),  \* "N/A"
     PyStr(<<110, 47, 97>>),  \* "n/a"
     PyStr(<<73, 78, 86, 65, 76, 73, 68>>),  \* "INVALID"
     PyStr(<<78, 111, 110, 101>>)}  \* "None"
BpGarbageValues ==
    {PyStr(<<97, 98, 99>>),  \* "abc"
     PyStr(<<49, 50, 48, 47>>),  \* "120/"
     PyStr(<<47, 56, 48>>),  \* "/80"
     PyStr(<<49, 50, 48, 47, 56, 48, 47, 49>>),  \* "120/80/1"
     PyStr(<<49, 50, 97, 47, 56, 48>>),  \* "12a/80"
     PyStr(<<49, 50, 48>>),  \* "120"
     PyInt(120), PyFloat(12080)}
BpValidValues ==
    {PyStr(<<49, 49, 56, 47, 55, 54>>),  \* "118/76"
     PyStr(<<32, 49, 50, 53, 32, 47, 32, 55, 57, 32>>),  \* " 125 / 79 "
     PyStr(<<49, 53, 48, 47, 57, 53>>),  \* "150/95"
     PyStr(<<49, 51, 48, 47, 55, 48>>)}  \* "130/70"
BpValues == MissingValues \cup BpSentinelValues \cup BpGarbageValues \cup BpValidValues

\* Temperature values.
TempSentinelValues ==
    {PyStr(<<84, 69, 77, 80, 95, 69, 82, 82, 79, 82>>),  \* "TEMP_ERROR"
     PyStr(<<116, 101, 109, 112, 95, 101, 114, 114, 111, 114>>),  \* "temp_error"
     PyStr(<<78, 65>>),  \* "NA"
     PyStr(<<110, 117, 108, 108>>)}  \* "null"
TempGarbageValues ==
    {PyStr(<<97, 98, 99>>),  \* "abc"
     PyStr(<<57, 57, 46, 54, 70>>),  \* "99.6F"
     PyStr(<<49, 46, 50, 46, 51>>),  \* "1.2.3"
     PyStr(<<110, 97, 110>>),  \* "nan"
     PyStr(<<105, 110, 102>>)}  \* "inf"
TempValidValues ==
    {PyFloat(9860),
     PyInt(100),
     PyInt(101),
     PyStr(<<57, 57, 46, 55>>),  \* "99.7"
     PyStr(<<32, 49, 48, 49, 46, 50, 32>>),  \* " 101.2 "
     PyStr(<<57, 57, 46, 53>>)}  \* "99.5"
TempValues == MissingValues \cup TempSentinelValues \cup TempGarbageValues \cup TempValidValues

\* Age values.
AgeGarbageValues ==
    {PyStr(<<97, 98, 99>>),  \* "abc"
     PyStr(<<52, 53, 46, 53>>),  \* "45.5"
     PyStr(<<45, 53>>),  \* "-5"
     PyStr(<<32, 52, 53>>),  \* " 45"
     PyStr(<<78, 47, 65>>)}  \* "N/A"
AgeValidValues ==
    {PyStr(<<55, 48>>),  \* "70"
     PyStr(<<51, 57>>),  \* "39"
     PyInt(40),
     PyInt(66),
     PyFloat(6590),
     PyStr(<<48, 54, 53>>)}  \* "065"
AgeValues == MissingValues \cup AgeGarbageValues \cup AgeValidValues

\* ------------------------------------------------------------ state

VARIABLES
    pc,                  \* "fetch", "fetched", "process", "submit", "done", "raised"
    page,                \* fetch_all_patients: the page being fetched
    attempt,             \* fetch_patients_with_retry: the loop's attempt
    all_patients,        \* the fetched records, the list process_patients reads
    log,                 \* every request sent so far, with the kind of its answer
    idx,                 \* process_patients: the record the loop is at
    high_risk_patients,
    fever_patients,
    data_quality_issues,
    risk,                \* the RiskScore of the record the loop last scored
    bp_line,             \* the return statement calculate_bp_risk took for it
    results,             \* what process_patients returned
    success,             \* what submit_assessment returned
    given                \* the reading a generated input was written from

vars == <<pc, page, attempt, all_patients, log, idx, high_risk_patients,
          fever_patients, data_quality_issues, risk, bp_line, results, success, given>>

fetchVars == <<page, attempt, all_patients>>
loopVars == <<idx, high_risk_patients, fever_patients, data_quality_issues, risk, bp_line>>

\* run() is entered: fetch_all_patients starts at page 1 with nothing fetched.
Init ==
    /\ pc = "fetch"
    /\ page = 1
    /\ attempt = 0
    /\ all_patients = <<>>
    /\ log = <<>>
    /\ idx = 0
    /\ high_risk_patients = <<>>
    /\ fever_patients = <<>>
    /\ data_quality_issues = <<>>
    /\ risk = NoRisk
    /\ bp_line = 0
    /\ results = NoResults
    /\ success = FALSE
    /\ given = NoGiven

GetEntry(status, body) ==
    [kind |-> "GET", page |-> page, answer |-> ResponseKind(status), body |-> body]

PostEntry == [kind |-> "POST", page |-> 0, answer |-> "post", body |-> NoBody]

\* A variant whose attempt counter is kept across pages.
AdvancePage_KeepAttempt ==
    /\ page' = page + 1
    /\ attempt' = attempt
    /\ pc' = "fetch"

\* Lines 94-95 and 75: the next page is fetched, by a new call of
\* fetch_patients_with_retry whose attempts start again at 0.
AdvancePage ==
    /\ page' = page + 1
    /\ attempt' = 0
    /\ pc' = "fetch"

\* A request answered 200 with `body`: fetch_patients_with_retry returns it
\* (lines 47-48) and fetch_all_patients handles the page (lines 77-95).
Get200(body) ==
    /\ pc = "fetch"
    /\ page <= MaxPage
    /\ body.has_next = "true" => page < MaxPage
    /\ log' = Append(log, GetEntry(200, body))
    /\ IF NoData(body) \/ body.data = <<>>
       THEN /\ pc' = "fetched"
            /\ UNCHANGED fetchVars
       ELSE /\ all_patients' = all_patients \o body.data
            /\ IF HasNext(body)
               THEN AdvancePage
               ELSE /\ pc' = "fetched"
                    /\ UNCHANGED <<page, attempt>>
    /\ UNCHANGED <<loopVars, results, success, given>>

\* Lines 59-65 and 50-54: the attempt failed and is retried, or was the last.
RetryOrGiveUp ==
    /\ IF RetriesExhausted(attempt)
       THEN pc' = "fetched" /\ attempt' = attempt
       ELSE pc' = "fetch" /\ attempt' = attempt + 1
    /\ UNCHANGED <<page, all_patients, loopVars, results, success, given>>

\* A request answered with a status of RETRY_STATUSES (lines 50-54).
GetRetryStatus(status) ==
    /\ pc = "fetch"
    /\ page <= MaxPage
    /\ status \in RETRY_STATUSES
    /\ log' = Append(log, GetEntry(status, NoBody))
    /\ RetryOrGiveUp

\* A request that raised RequestException (lines 59-62).
GetTransportFailure ==
    /\ pc = "fetch"
    /\ page <= MaxPage
    /\ log' = Append(log, GetEntry(0, NoBody))
    /\ RetryOrGiveUp

\* A request answered with any other status: None is returned (lines 56-57)
\* and fetch_all_patients stops (lines 77-79).
GetOtherStatus(status) ==
    /\ pc = "fetch"
    /\ page <= MaxPage
    /\ status \notin RETRY_STATUSES
    /\ log' = Append(log, GetEntry(status, NoBody))
    /\ pc' = "fetched"
    /\ UNCHANGED <<fetchVars, loopVars, results, success, given>>

\* run, lines 357-359: nothing was fetched.
RunNoPatients ==
    /\ pc = "fetched"
    /\ NoPatients(all_patients)
    /\ pc' = "done"
    /\ UNCHANGED <<fetchVars, log, loopVars, results, success, given>>

\* run, line 361, and process_patients, lines 235-237.
RunProcess ==
    /\ pc = "fetched"
    /\ ~NoPatients(all_patients)
    /\ pc' = "process"
    /\ idx' = 1
    /\ high_risk_patients' = <<>>
    /\ fever_patients' = <<>>
    /\ data_quality_issues' = <<>>
    /\ UNCHANGED <<fetchVars, log, risk, bp_line, results, success, given>>

\* process_patients, lines 239-254: one pass of the loop.
ProcessPatient ==
    /\ pc = "process"
    /\ idx <= Len(all_patients)
    /\ LET patient == all_patients[idx]
           patient_id == PatientId(patient)
           r == calculate_risk_score(patient)
       IN  /\ risk' = r
           /\ bp_line' = calculate_bp_risk(Get(patient.blood_pressure)).line
           /\ high_risk_patients' =
                  IF IsHighRisk(r) THEN Append(high_risk_patients, patient_id)
                  ELSE high_risk_patients
           /\ fever_patients' =
                  IF IsFever(patient) THEN Append(fever_patients, patient_id)
                  ELSE fever_patients
           /\ data_quality_issues' =
                  IF r.has_data_issues THEN Append(data_quality_issues, patient_id)
                  ELSE data_quality_issues
    /\ idx' = idx + 1
    /\ UNCHANGED <<pc, fetchVars, log, results, success, given>>

\* One of the three sorted() of lines 257-259 raises TypeError.
ReturnRaises ==
    \/ SortRaises(high_risk_patients)
    \/ SortRaises(fever_patients)
    \/ SortRaises(data_quality_issues)

\* process_patients, lines 256-261, when a sorted() raises: nothing catches
\* the TypeError, in process_patients or in run, and run ends with it.
ProcessRaise ==
    /\ pc = "process"
    /\ idx > Len(all_patients)
    /\ ReturnRaises
    /\ pc' = "raised"
    /\ UNCHANGED <<fetchVars, log, loopVars, results, success, given>>

\* process_patients, lines 256-261.
ProcessReturn ==
    /\ pc = "process"
    /\ idx > Len(all_patients)
    /\ ~ReturnRaises
    /\ results' = [high_risk_patients |-> Sorted(high_risk_patients),
                   fever_patients |-> Sorted(fever_patients),
                   data_quality_issues |-> Sorted(data_quality_issues),
                   total_patients |-> Len(all_patients)]
    /\ pc' = "submit"
    /\ UNCHANGED <<fetchVars, log, loopVars, success, given>>

\* How the sink answers the POST: 200 with success, 200 without, another
\* status, or a failed request.
SubmitOutcomes == {"success", "rejected", "http_error", "exception"}

\* run, line 389, and submit_assessment: one POST, never retried.
Submit(outcome) ==
    /\ pc = "submit"
    /\ log' = Append(log, PostEntry)
    /\ success' = (outcome = "success")
    /\ pc' = "done"
    /\ UNCHANGED <<fetchVars, loopVars, results, given>>

Next ==
    \/ \E body \in Bodies : Get200(body)
    \/ \E status \in NonOkStatuses : GetRetryStatus(status)
    \/ GetTransportFailure
    \/ \E status \in NonOkStatuses : GetOtherStatus(status)
    \/ RunNoPatients
    \/ RunProcess
    \/ ProcessPatient
    \/ ProcessReturn
    \/ ProcessRaise
    \/ \E outcome \in SubmitOutcomes : Submit(outcome)

\* One execution of run().
Spec == Init /\ [][Next]_vars

\* process_patients is entered with a list of records: one record with a
\* swept temperature, one with a swept blood pressure, one with every
\* combination of vital values, or a list over the catalog.
InitScore ==
    /\ pc = "process"
    /\ page = 1
    /\ attempt = 0
    /\ log = <<>>
    /\ idx = 1
    /\ high_risk_patients = <<>>
    /\ fever_patients = <<>>
    /\ data_quality_issues = <<>>
    /\ risk = NoRisk
    /\ bp_line = 0
    /\ results = NoResults
    /\ success = FALSE
    /\ \/ \E h \in MinTemp..MaxTemp :
            \E temp \in {PyFloat(h), PyStr(FormatFloat(h)), PyStr(FormatFloat(h) \o <<48>>)} :  \* "0"
             /\ all_patients = <<Patient(PyStr(<<80, 49>>), BpString(118, 76), temp, PyInt(30))>>  \* "P1"
             /\ given = [kind |-> "temp", a |-> h, b |-> 0]
       \/ \E s \in 0..MaxSystolic : \E d \in 0..MaxDiastolic :
             /\ all_patients = <<Patient(PyStr(<<80, 49>>), BpString(s, d), PyFloat(9860), PyInt(30))>>  \* "P1"
             /\ given = [kind |-> "bp", a |-> s, b |-> d]
       \/ \E bp \in BpValues : \E temp \in TempValues : \E age \in AgeValues :
             /\ all_patients = <<Patient(PyStr(<<80, 49>>), bp, temp, age)>>  \* "P1"
             /\ given = [kind |-> "vitals", a |-> 0, b |-> 0]
       \/ \E patients \in SeqsUpTo(Catalog, MaxListLen) :
             /\ patients # <<>>
             /\ all_patients = patients
             /\ given = [kind |-> "list", a |-> 0, b |-> 0]

NextScore ==
    \/ ProcessPatient
    \/ ProcessReturn
    \/ ProcessRaise

\* One call of process_patients.
ScoreSpec == InitScore /\ [][NextScore]_vars

\* ------------------------------------------------------------ the fetch protocol

\* The GET requests sent so far, in order.
Gets == SelectSeq(log, LAMBDA e : e.kind = "GET")

\* The records of the 200 answers among `entries`, concatenated in order.
RECURSIVE ConcatData(_)
ConcatData(entries) ==
    IF entries = <<>> THEN <<>>
    ELSE (IF Head(entries).answer = "ok" THEN Head(entries).body.data ELSE <<>>)
         \o ConcatData(Tail(entries))

\* The records fetched from the pages before page n.
FetchedBefore(n) == ConcatData(SelectSeq(Gets, LAMBDA e : e.page < n))

\* The positions in Gets of the requests for page n.
RequestsFor(n) == {i \in 1..Len(Gets) : Gets[i].page = n}

\* A 200 answer with a non-empty page of records.
GoodPage(e) == e.answer = "ok" /\ e.body.has_data /\ e.body.data # <<>>

\* The first k requests were answered with non-empty pages, all but the k-th
\* announcing a next page and the k-th not.
PagesThenEnd(k) ==
    /\ k <= Len(Gets)
    /\ \A i \in 1..k : GoodPage(Gets[i])
    /\ \A i \in 1..(k - 1) : Gets[i].body.has_next = "true"
    /\ Gets[k].body.has_next # "true"

\* C2: when the source answers 200 with non-empty pages 1..k, pages 1..k-1
\* with hasNext true and page k without, exactly k requests are made, for
\* pages 1, 2, ..., k in that order, the fetch is over, and the records are
\* those of pages 1..k in page order.
C2_PagesFetchedInOrder ==
    \A k \in 1..Len(Gets) :
        PagesThenEnd(k) =>
            /\ Len(Gets) = k
            /\ pc # "fetch"
            /\ \A i \in 1..k : Gets[i].page = i
            /\ all_patients = ConcatData(Gets)

C2_Witness ==
    /\ PagesThenEnd(2)
    /\ Gets[2].body.has_next = "absent"
    /\ pc = "done"
    /\ Len(all_patients) = 2

\* C3: when every attempt for page n fails with a transient failure, exactly
\* MAX_RETRIES requests are made for page n, none follows them, and the
\* fetch returns the records of pages 1..n-1.
C3_RetriesExhausted ==
    \A n \in 1..MaxPage :
        (RequestsFor(n) # {} /\ \A i \in RequestsFor(n) : Gets[i].answer = "transient") =>
            /\ Cardinality(RequestsFor(n)) <= MAX_RETRIES
            /\ pc # "fetch" => Cardinality(RequestsFor(n)) = MAX_RETRIES
            /\ Cardinality(RequestsFor(n)) = MAX_RETRIES =>
                   /\ pc # "fetch"
                   /\ \A i \in 1..Len(Gets) : Gets[i].page <= n
                   /\ all_patients = FetchedBefore(n)

C3_Witness ==
    /\ pc = "done"
    /\ Cardinality(RequestsFor(2)) = MAX_RETRIES
    /\ \A i \in RequestsFor(2) : Gets[i].answer = "transient"
    /\ all_patients # <<>>
    /\ all_patients = FetchedBefore(2)

\* The requests for page n were j transient failures and then a 200.
RetriedThenOk(n, j) ==
    /\ Cardinality(RequestsFor(n)) >= j + 1
    /\ LET first == CHOOSE i \in RequestsFor(n) : \A m \in RequestsFor(n) : i <= m
       IN  /\ first + j <= Len(Gets)
           /\ \A i \in first..(first + j - 1) : Gets[i].page = n /\ Gets[i].answer = "transient"
           /\ Gets[first + j].page = n /\ Gets[first + j].answer = "ok"

\* C4: when the first j attempts for a page (1 <= j <= 4) fail with a
\* transient failure and attempt j+1 is answered 200, exactly j+1 requests
\* are made for the page, the records fetched are those of the 200 answers,
\* each once, and the fetch goes on as after a first-attempt success: to the
\* next page with the attempts at zero, or to its end.
C4_RetryThenSuccess ==
    \A n \in 1..MaxPage : \A j \in 1..(MAX_RETRIES - 1) :
        RetriedThenOk(n, j) =>
            /\ Cardinality(RequestsFor(n)) = j + 1
            /\ all_patients = ConcatData(Gets)
            /\ Gets[Len(Gets)].page = n =>
                   IF GoodPage(Gets[Len(Gets)]) /\ Gets[Len(Gets)].body.has_next = "true"
                   THEN pc = "fetch" /\ page = n + 1 /\ attempt = 0
                   ELSE pc # "fetch" /\ page = n

C4_Witness ==
    /\ RetriedThenOk(1, MAX_RETRIES - 1)
    /\ pc = "fetch"
    /\ page = 2
    /\ attempt = 1
    /\ Len(all_patients) = 1

\* C5: a status other than 200, 429, 500 and 503 ends the fetch at once: no
\* request follows it, and the records are those of the pages before.
C5_FatalStatusAborts ==
    \A i \in 1..Len(Gets) :
        Gets[i].answer = "other" =>
            /\ i = Len(Gets)
            /\ pc # "fetch"
            /\ all_patients = FetchedBefore(Gets[i].page)

C5_Witness ==
    /\ Len(Gets) = 3
    /\ Gets[1].answer = "ok"
    /\ Gets[2].answer = "transient"
    /\ Gets[3].answer = "other"
    /\ Gets[3].page = 2
    /\ pc = "done"
    /\ all_patients # <<>>

\* The POST requests sent so far.
Posts == SelectSeq(log, LAMBDA e : e.kind = "POST")

\* run() is over: it returned, or an exception ended it.
RunOver == pc \in {"done", "raised"}

\* C10: the submission is sent at most once, after the last fetch request;
\* once run() is over it was sent exactly when a record was fetched.
C10_SubmitOnceAfterFetch ==
    /\ Len(Posts) <= 1
    /\ \A i \in 1..Len(log) : log[i].kind = "POST" => i = Len(log) /\ pc = "done"
    /\ Len(Posts) = 1 => all_patients # <<>>
    /\ RunOver /\ all_patients # <<>> => Len(Posts) = 1

\* ------------------------------------------------------------ the scorers

\* a list of identifiers is sorted and holds no identifier twice.
StrictlyIncreasing(ids) ==
    \A i \in 1..(Len(ids) - 1) : Comparable(ids[i], ids[i + 1]) /\ PyLess(ids[i], ids[i + 1])

\* C1: each of the three lists process_patients returns is lexicographically
\* sorted and holds no identifier more than once.
C1_SortedNoDuplicates ==
    pc = "submit" =>
        /\ StrictlyIncreasing(results.high_risk_patients)
        /\ StrictlyIncreasing(results.fever_patients)
        /\ StrictlyIncreasing(results.data_quality_issues)

\* The record process_patients' loop has just scored.
Scored == given.kind # "none" /\ pc = "process" /\ idx = 2 /\ Len(all_patients) = 1

\* C6: a temperature t scores 0 when t <= 99.5, 1 when 99.6 <= t <= 100.9,
\* and 2 only when t > 100.9.
C6_TempBuckets ==
    Scored /\ given.kind = "temp" =>
        /\ given.a <= 9950 => risk.temp_score = 0
        /\ 9960 <= given.a /\ given.a <= 10090 => risk.temp_score = 1
        /\ risk.temp_score = 2 => given.a > 10090

\* The score the blood-pressure rules give, the first rule that matches, and
\* 0 for rule 5, the fallback.
BpRule(s, d) ==
    IF s < 120 /\ d < 80 THEN 1
    ELSE IF 120 <= s /\ s <= 129 /\ d < 80 THEN 2
    ELSE IF (130 <= s /\ s <= 139) \/ (80 <= d /\ d <= 89) THEN 3
    ELSE IF s >= 140 \/ d >= 90 THEN 4
    ELSE 5

\* C7: for a string "S/D" with integers S, D >= 0, calculate_bp_risk returns
\* no issue and the score of the first matching rule, 0, 1, 2 or 3; the
\* fallback return is never reached.
C7_BpRules ==
    Scored /\ given.kind = "bp" =>
        /\ BpRule(given.a, given.b) \in 1..4
        /\ risk.bp_score = BpRule(given.a, given.b) - 1
        /\ risk.issues = <<>>
        /\ ~risk.has_data_issues
        /\ bp_line \in {140, 144, 148, 152}

C7_Witness ==
    /\ Scored
    /\ given = [kind |-> "bp", a |-> 140, b |-> 90]
    /\ risk.bp_score = 3
    /\ bp_line = 152

\* The number of vitals of a record that are missing or invalid, and that
\* list in the order BP, temperature, age (1 for one that is, 0 otherwise).
BadVitals(patient) ==
    << IF patient.blood_pressure \in BpValidValues THEN 0 ELSE 1,
       IF patient.temperature \in TempValidValues THEN 0 ELSE 1,
       IF patient.age \in AgeValidValues THEN 0 ELSE 1 >>

\* s starts with prefix.
StartsWith(s, prefix) == Len(s) >= Len(prefix) /\ SubSeq(s, 1, Len(prefix)) = prefix

\* The vital an issue is about, by its text.
IssueVital(issue) ==
    IF StartsWith(issue.s, <<73, 110, 118, 97, 108, 105, 100, 32, 66, 80>>)  \* "Invalid BP"
    THEN 1
    ELSE IF \/ StartsWith(issue.s,  \* "Missing temperature"
                  <<77, 105, 115, 115, 105, 110, 103, 32, 116, 101, 109, 112,
                    101, 114, 97, 116, 117, 114, 101>>)
            \/ StartsWith(issue.s,  \* "Invalid temperature"
                  <<73, 110, 118, 97, 108, 105, 100, 32, 116, 101, 109, 112,
                    101, 114, 97, 116, 117, 114, 101>>)
    THEN 2
    ELSE IF \/ StartsWith(issue.s,  \* "Missing age"
                  <<77, 105, 115, 115, 105, 110, 103, 32, 97, 103, 101>>)
            \/ StartsWith(issue.s,  \* "Invalid age"
                  <<73, 110, 118, 97, 108, 105, 100, 32, 97, 103, 101>>)
    THEN 3
    ELSE 0

\* C8: every vital that is missing or invalid scores 0 and adds exactly one
\* issue, in the order BP, temperature, age; has_data_issues is true iff
\* there is an issue iff a vital is missing or invalid; the total is the sum
\* of the three scores.
C8_InvalidVitals ==
    Scored /\ given.kind = "vitals" =>
        LET bad == BadVitals(all_patients[1])
            vitals == SelectSeq(<<1, 2, 3>>, LAMBDA v : bad[v] = 1)
        IN  /\ bad[1] = 1 => risk.bp_score = 0
            /\ bad[2] = 1 => risk.temp_score = 0
            /\ bad[3] = 1 => risk.age_score = 0
            /\ [i \in 1..Len(risk.issues) |-> IssueVital(risk.issues[i])] = vitals
            /\ risk.has_data_issues <=> risk.issues # <<>>
            /\ risk.has_data_issues <=> vitals # <<>>
            /\ risk.total_score = risk.bp_score + risk.temp_score + risk.age_score

\* An issue about the temperature is in the list.
HasTempIssue(r) == \E i \in 1..Len(r.issues) : IssueVital(r.issues[i]) = 2

\* C9: a patient the loop adds to the fever cohort was scored by the risk
\* engine with temp_score >= 1 and no temperature issue.
C9_FeverIsScored ==
    [][Len(fever_patients') > Len(fever_patients) =>
           risk'.temp_score >= 1 /\ ~HasTempIssue(risk')]_vars

C9_Witness ==
    /\ Scored
    /\ given.kind = "vitals"
    /\ fever_patients # <<>>
    /\ all_patients[1].temperature = PyStr(<<32, 49, 48, 49, 46, 50, 32>>)  \* " 101.2 "
    /\ risk.temp_score = 2

====
